---- MODULE Spec2Model ----
(***************************************************************************)
(* Model of the xmr-btc-swap responder (Alice) side of the execution-setup *)
(* handshake (swap/src/protocol/alice/execution_setup.rs) and of the       *)
(* environment configuration (swap/src/env.rs).                            *)
(*                                                                         *)
(* Handshake: one attempt per peer.  The future handed to                  *)
(* do_protocol_listener is a straight-line async block; every statement of *)
(* it is one action, `pc` names the statement an attempt is at.  What the  *)
(* substream delivers, and whether an I/O or (de)serialization call fails, *)
(* is chosen by the environment at the step that makes the call.           *)
(*                                                                         *)
(* Configuration: Duration values are counted in milliseconds.             *)
(***************************************************************************)
EXTENDS Integers, Sequences, FiniteSets, TLC

VARIABLES
    attempt,    \* handshake: the state of each peer's attempt
    tier,       \* configuration: the tier the caller selected
    base,       \* the Config get_config returned to the caller
    config,     \* the Config after the caller's overrides
    call,       \* the last configuration call: function, receiver, argument
    interval,   \* the Duration the last sync-interval call returned
    xmr_btc,    \* xmr-btc configuration: the Config last constructed
    spot,       \* spot price: the last request, response and their encodings
    peer,       \* handshake: the dialer at the other end of each substream
    swap        \* the swap of the restart test: Bob, Alice, database, wallets

vars == <<attempt, tier, base, config, call, interval, xmr_btc, spot, peer, swap>>
envVars == <<tier, base, config, call, interval>>

\* what a statement of the handshake future leaves alone
restVars == <<envVars, xmr_btc, spot, swap>>

\* what a call on the swap crate's Config leaves alone
farVars == <<xmr_btc, spot, peer, swap>>

\* Number of peers that run a handshake attempt against this responder.
NumPeers == 2

\* Average block times 0..MaxSecs seconds are tried on sync_interval.
MaxSecs == 12

\* Finality confirmation counts 0..MaxConfirmations are tried as overrides.
MaxConfirmations == 3

Peers == 1..NumPeers

----------------------------------------------------------------------------
\* Values carried by the handshake

MsgTypes == {"Message0", "Message1", "Message2"}

\* Bytes that encode no message: malformed or truncated.
Malformed == [type |-> "malformed", binding |-> FALSE]

\* A frame delivered by substream.read_message: either the encoding of a
\* bob::MessageN (type), whose cryptographic material may or may not pass the
\* checks of the state that folds it (binding), or malformed bytes.
Frames == [type : MsgTypes, binding : BOOLEAN] \cup {Malformed}

NoFrame == [type |-> "none", binding |-> FALSE]

NoMessage == [type |-> "none", binding |-> FALSE]

NoError == [context |-> "none", cause |-> "none"]

NoResult == [ok |-> FALSE, state |-> "none", err |-> NoError]

Ok(s) == [ok |-> TRUE, state |-> s, err |-> NoError]

Err(e) == [ok |-> FALSE, state |-> "none", err |-> e]

\* anyhow's .context(c) applied to the error of a failed call
Context(c, cause) == [context |-> c, cause |-> cause]

\* an error propagated by `?` without a context
Bare(cause) == [context |-> "none", cause |-> cause]

\* serde_cbor::from_slice::<bob::MessageN>(bytes): succeeds only on the
\* encoding of a message of the requested type.
from_slice(T, bytes) ==
    IF bytes.type = T
    THEN [ok |-> TRUE, msg |-> [type |-> bytes.type, binding |-> bytes.binding]]
    ELSE [ok |-> FALSE, msg |-> NoMessage]

\* State0::receive(bob::Message0) -> Result<State1>: validates the message.
State0_receive(m) ==
    IF m.binding THEN Ok("State1") ELSE Err(Bare("State0::receive"))

\* State1::receive(bob::Message1) -> State2: no validation, cannot fail.
State1_receive(m) == "State2"

\* State2::receive(bob::Message2) -> Result<State3>: checks the signatures
\* of the message against the material of the earlier rounds.
State2_receive(m) ==
    IF m.binding THEN Ok("State3") ELSE Err(Bare("State2::receive"))

\* impl From<BehaviourOutEvent<State3, (), Error>> for OutEvent
OutEvent_from(event) ==
    CASE event.dir = "Inbound" /\ event.res.ok ->
            [tag |-> "Done", res |-> Ok(event.res.state)]
      [] event.dir = "Inbound" /\ ~event.res.ok ->
            [tag |-> "Done", res |-> Err(event.res.err)]
      [] OTHER -> [tag |-> "unreachable", res |-> NoResult]

----------------------------------------------------------------------------
\* One handshake attempt

Idle ==
    [ pc            |-> "idle",
      role          |-> "none",
      state         |-> "none",
      alice_message0 |-> "none",
      buf           |-> NoFrame,
      bob_message   |-> NoMessage,
      bytes         |-> "none",
      history       |-> << >>,
      result        |-> NoResult,
      events        |-> << >> ]

\* One entry of an attempt's history: a call the future made, the message
\* it was about, the StateN the attempt owned at the call, and whether the
\* call succeeded.
H(op, msg, st, ok) == [op |-> op, msg |-> msg, state |-> st, ok |-> ok]

\* Variant: the error of one attempt ends every attempt of the behaviour.
Fail_Shared(a, e, op, msg) ==
    attempt' = [b \in Peers |->
        IF b = a
        THEN [attempt[a] EXCEPT
                !.pc = "ret",
                !.result = Err(e),
                !.buf = NoFrame,
                !.bob_message = NoMessage,
                !.bytes = "none",
                !.history = Append(@, H(op, msg, attempt[a].state, FALSE))]
        ELSE IF attempt[b].pc \in {"idle", "ret", "done"}
             THEN attempt[b]
             ELSE [attempt[b] EXCEPT !.pc = "ret", !.result = Err(e)]]

\* `?` on an Err: the future returns the error and its temporaries are
\* dropped; nothing else runs.
Fail(a, e, op, msg) ==
    attempt' = [attempt EXCEPT
        ![a].pc = "ret",
        ![a].result = Err(e),
        ![a].buf = NoFrame,
        ![a].bob_message = NoMessage,
        ![a].bytes = "none",
        ![a].history = Append(@, H(op, msg, attempt[a].state, FALSE))]

\* Variant: the closure is handed to do_protocol_dialer.
Run_AsDialer(a) ==
    /\ attempt[a].pc = "idle"
    /\ attempt' = [attempt EXCEPT ![a].pc = "listening",
                                  ![a].role = "dialer",
                                  ![a].state = "State0"]
    /\ UNCHANGED restVars

\* Behaviour::run: hands state0 and the closure to do_protocol_listener.
Run(a) ==
    /\ attempt[a].pc = "idle"
    /\ attempt' = [attempt EXCEPT ![a].pc = "listening",
                                  ![a].role = "listener",
                                  ![a].state = "State0"]
    /\ UNCHANGED restVars

\* The substream is there, the future starts:
\* let alice_message0 = state0.next_message();
NextMessage0(a) ==
    /\ attempt[a].pc = "listening"
    /\ attempt' = [attempt EXCEPT ![a].pc = "read0",
                                  ![a].alice_message0 = "Message0"]
    /\ UNCHANGED restVars

\* substream.read_message(BUF_SIZE).await?
ReadMessage(a, here, there) ==
    /\ attempt[a].pc = here
    /\ \/ \E f \in Frames :
            attempt' = [attempt EXCEPT
                ![a].pc = there,
                ![a].buf = f,
                ![a].history = Append(@, H("read", f.type, attempt[a].state, TRUE))]
       \/ Fail(a, Bare("read_message"), "read", "none")
    /\ UNCHANGED restVars

\* serde_cbor::from_slice::<bob::MessageN>(..).context("failed to deserialize messageN")?
Deserialize(a, here, there, T, ctx) ==
    /\ attempt[a].pc = here
    /\ LET r == from_slice(T, attempt[a].buf) IN
         IF r.ok
         THEN attempt' = [attempt EXCEPT
                ![a].pc = there,
                ![a].buf = NoFrame,
                ![a].bob_message = r.msg,
                ![a].history = Append(@, H("deserialize", T, attempt[a].state, TRUE))]
         ELSE Fail(a, Context(ctx, "serde_cbor::from_slice"), "deserialize", T)
    /\ UNCHANGED restVars

\* serde_cbor::to_vec(&message).context("failed to serialize MessageN")?
Serialize(a, here, there, m, ctx) ==
    /\ attempt[a].pc = here
    /\ \/ attempt' = [attempt EXCEPT
                ![a].pc = there,
                ![a].bytes = m,
                ![a].history = Append(@, H("serialize", m, attempt[a].state, TRUE))]
       \/ Fail(a, Context(ctx, "serde_cbor::to_vec"), "serialize", m)
    /\ UNCHANGED restVars

\* substream.write_message(&bytes).await?
WriteMessage(a, here, there) ==
    /\ attempt[a].pc = here
    /\ \/ attempt' = [attempt EXCEPT
                ![a].pc = there,
                ![a].bytes = "none",
                ![a].history = Append(@, H("write", attempt[a].bytes, attempt[a].state, TRUE))]
       \/ Fail(a, Bare("write_message"), "write", attempt[a].bytes)
    /\ UNCHANGED restVars

Read0(a) == ReadMessage(a, "read0", "deser0")

Deser0(a) ==
    Deserialize(a, "deser0", "recv0", "Message0", "failed to deserialize message0")

\* Variant: the Result of state0.receive is not checked.
Recv0_Unchecked(a) ==
    /\ attempt[a].pc = "recv0"
    /\ LET r == State0_receive(attempt[a].bob_message) IN
         attempt' = [attempt EXCEPT
            ![a].pc = "ser0",
            ![a].state = "State1",
            ![a].bob_message = NoMessage,
            ![a].history = Append(@, H("fold", attempt[a].bob_message.type, attempt[a].state, r.ok))]
    /\ UNCHANGED restVars

\* Variant: the fold succeeds but the attempt keeps using state0.
Recv0_NoAdvance(a) ==
    /\ attempt[a].pc = "recv0"
    /\ LET r == State0_receive(attempt[a].bob_message) IN
         IF r.ok
         THEN attempt' = [attempt EXCEPT
                ![a].pc = "ser0",
                ![a].bob_message = NoMessage,
                ![a].history = Append(@, H("fold", attempt[a].bob_message.type, attempt[a].state, TRUE))]
         ELSE Fail(a, r.err, "fold", attempt[a].bob_message.type)
    /\ UNCHANGED restVars

\* state0.receive(bob_message0)?
Recv0(a) ==
    /\ attempt[a].pc = "recv0"
    /\ LET r == State0_receive(attempt[a].bob_message) IN
         IF r.ok
         THEN attempt' = [attempt EXCEPT
                ![a].pc = "ser0",
                ![a].state = r.state,
                ![a].bob_message = NoMessage,
                ![a].history = Append(@, H("fold", attempt[a].bob_message.type, attempt[a].state, TRUE))]
         ELSE Fail(a, r.err, "fold", attempt[a].bob_message.type)
    /\ UNCHANGED restVars

Ser0(a) ==
    Serialize(a, "ser0", "write0", attempt[a].alice_message0, "failed to serialize Message0")

\* Variant: Alice goes on to her Message2 without waiting for the peer's Message1.
Write0_NoWait(a) == WriteMessage(a, "write0", "ser2")

\* Variant: the write of Alice's Message0 is left out.
Write0_Skipped(a) ==
    /\ attempt[a].pc = "write0"
    /\ attempt' = [attempt EXCEPT ![a].pc = "read1"]
    /\ UNCHANGED restVars

Write0(a) == WriteMessage(a, "write0", "read1")

Read1(a) == ReadMessage(a, "read1", "deser1")

\* Variant: the context of the first read is copied to the second.
Deser1_Context0(a) ==
    Deserialize(a, "deser1", "recv1", "Message1", "failed to deserialize message0")

Deser1(a) ==
    Deserialize(a, "deser1", "recv1", "Message1", "failed to deserialize message1")

\* Variant: after the fold the future goes straight to the last read, its
\* own Message2 is never sent.
Recv1_ToRead2(a) ==
    /\ attempt[a].pc = "recv1"
    /\ attempt' = [attempt EXCEPT
            ![a].pc = "read2",
            ![a].state = State1_receive(attempt[a].bob_message),
            ![a].bob_message = NoMessage,
            ![a].history = Append(@, H("fold", attempt[a].bob_message.type, attempt[a].state, TRUE))]
    /\ UNCHANGED restVars

\* Variant: the fold is propagated with `?` and may fail like the others.
Recv1_Fallible(a) ==
    /\ attempt[a].pc = "recv1"
    /\ IF attempt[a].bob_message.binding
       THEN attempt' = [attempt EXCEPT
                ![a].pc = "ser2",
                ![a].state = State1_receive(attempt[a].bob_message),
                ![a].bob_message = NoMessage,
                ![a].history = Append(@, H("fold", attempt[a].bob_message.type, attempt[a].state, TRUE))]
       ELSE Fail(a, Bare("receive"), "fold", attempt[a].bob_message.type)
    /\ UNCHANGED restVars

\* state1.receive(bob_message1)
Recv1(a) ==
    /\ attempt[a].pc = "recv1"
    /\ attempt' = [attempt EXCEPT
            ![a].pc = "ser2",
            ![a].state = State1_receive(attempt[a].bob_message),
            ![a].bob_message = NoMessage,
            ![a].history = Append(@, H("fold", attempt[a].bob_message.type, attempt[a].state, TRUE))]
    /\ UNCHANGED restVars

\* let alice_message2 = state2.next_message(); serde_cbor::to_vec(&alice_message2)
Ser2(a) ==
    Serialize(a, "ser2", "write2", "Message2", "failed to serialize Message2")

\* Variant: the bytes of Message2 are serialized but never written.
Write2_Skipped(a) ==
    /\ attempt[a].pc = "write2"
    /\ attempt' = [attempt EXCEPT ![a].pc = "read2", ![a].bytes = "none"]
    /\ UNCHANGED restVars

Write2(a) == WriteMessage(a, "write2", "read2")

Read2(a) == ReadMessage(a, "read2", "deser2")

Deser2(a) ==
    Deserialize(a, "deser2", "recv2", "Message2", "failed to deserialize message2")

\* Variant: a failed check of the peer's Message2 is recorded but the
\* attempt goes on to return Ok.
Recv2_Downgraded(a) ==
    /\ attempt[a].pc = "recv2"
    /\ LET r == State2_receive(attempt[a].bob_message) IN
         attempt' = [attempt EXCEPT
            ![a].pc = "ok",
            ![a].state = "State3",
            ![a].bob_message = NoMessage,
            ![a].history = Append(@, H("fold", attempt[a].bob_message.type, attempt[a].state, r.ok))]
    /\ UNCHANGED restVars

\* state2.receive(bob_message2)?
Recv2(a) ==
    /\ attempt[a].pc = "recv2"
    /\ LET r == State2_receive(attempt[a].bob_message) IN
         IF r.ok
         THEN attempt' = [attempt EXCEPT
                ![a].pc = "ok",
                ![a].state = r.state,
                ![a].bob_message = NoMessage,
                ![a].history = Append(@, H("fold", attempt[a].bob_message.type, attempt[a].state, TRUE))]
         ELSE Fail(a, r.err, "fold", attempt[a].bob_message.type)
    /\ UNCHANGED restVars

\* Ok(state3)
Return(a) ==
    /\ attempt[a].pc = "ok"
    /\ attempt' = [attempt EXCEPT ![a].pc = "ret",
                                  ![a].result = Ok(attempt[a].state)]
    /\ UNCHANGED restVars

\* The inner behaviour reports the finished future of a listener as
\* BehaviourOutEvent::Inbound(peer, result), that of a dialer as Outbound;
\* the swarm converts it.
Emit(a) ==
    /\ attempt[a].pc = "ret"
    /\ attempt' = [attempt EXCEPT
            ![a].pc = "done",
            ![a].events = Append(@,
                OutEvent_from([dir |-> IF attempt[a].role = "listener"
                                         THEN "Inbound" ELSE "Outbound",
                               peer |-> a, res |-> attempt[a].result]))]
    /\ UNCHANGED restVars

Step(a) ==
    \/ NextMessage0(a)
    \/ Read0(a) \/ Deser0(a) \/ Recv0(a) \/ Ser0(a) \/ Write0(a)
    \/ Read1(a) \/ Deser1(a) \/ Recv1(a)
    \/ Ser2(a) \/ Write2(a)
    \/ Read2(a) \/ Deser2(a) \/ Recv2(a)
    \/ Return(a) \/ Emit(a)

----------------------------------------------------------------------------
\* Configuration (env.rs).  A Duration is a number of milliseconds.

from_secs(n) == n * 1000

seconds(n) == from_secs(n)

minutes(n) == from_secs(n * 60)

hours(n) == from_secs(n * 3600)

Max(x, y) == IF x >= y THEN x ELSE y

\* Variant: the lower bound is applied as an upper bound.
sync_interval_Min(avg_block_time) ==
    IF avg_block_time \div 10 <= from_secs(1)
    THEN avg_block_time \div 10
    ELSE from_secs(1)

\* fn sync_interval(avg_block_time: Duration) -> Duration
\* Duration / 10 truncates at the nanosecond; on the whole-second block times
\* used here the quotient is a whole number of milliseconds, so \div on
\* milliseconds gives the same value.
sync_interval(avg_block_time) == Max(avg_block_time \div 10, from_secs(1))

Tiers == {"Mainnet", "Testnet", "Regtest"}

Mainnet_get_config ==
    [ bitcoin_lock_confirmed_timeout |-> hours(24),
      bitcoin_finality_confirmations |-> 3,
      bitcoin_avg_block_time         |-> minutes(10),
      bitcoin_cancel_timelock        |-> 72,
      bitcoin_punish_timelock        |-> 72,
      bitcoin_network                |-> "Bitcoin",
      monero_avg_block_time          |-> minutes(2),
      monero_finality_confirmations  |-> 15,
      monero_network                 |-> "Mainnet" ]

Testnet_get_config ==
    [ bitcoin_lock_confirmed_timeout |-> hours(12),
      bitcoin_finality_confirmations |-> 1,
      bitcoin_avg_block_time         |-> minutes(5),
      bitcoin_cancel_timelock        |-> 12,
      bitcoin_punish_timelock        |-> 6,
      bitcoin_network                |-> "Testnet",
      monero_avg_block_time          |-> minutes(2),
      monero_finality_confirmations  |-> 10,
      monero_network                 |-> "Stagenet" ]

Regtest_get_config ==
    [ bitcoin_lock_confirmed_timeout |-> minutes(1),
      bitcoin_finality_confirmations |-> 1,
      bitcoin_avg_block_time         |-> seconds(5),
      bitcoin_cancel_timelock        |-> 100,
      bitcoin_punish_timelock        |-> 50,
      bitcoin_network                |-> "Regtest",
      monero_avg_block_time          |-> seconds(1),
      monero_finality_confirmations  |-> 10,
      monero_network                 |-> "Mainnet" ]

\* <T as GetConfig>::get_config()
get_config(t) ==
    CASE t = "Mainnet" -> Mainnet_get_config
      [] t = "Testnet" -> Testnet_get_config
      [] t = "Regtest" -> Regtest_get_config

ConfigFields == DOMAIN Mainnet_get_config

\* Config::bitcoin_sync_interval(&self)
bitcoin_sync_interval(self) == sync_interval(self.bitcoin_avg_block_time)

\* Config::monero_sync_interval(&self)
monero_sync_interval(self) == sync_interval(self.monero_avg_block_time)

\* Variant: the argument is stored in the cancel timelock.
with_bitcoin_finality_confirmations_WrongField(self, bitcoin_finality_confirmations) ==
    [self EXCEPT !.bitcoin_cancel_timelock = bitcoin_finality_confirmations]

\* Config::with_bitcoin_finality_confirmations(mut self, n) -> Config
with_bitcoin_finality_confirmations(self, bitcoin_finality_confirmations) ==
    [self EXCEPT !.bitcoin_finality_confirmations = bitcoin_finality_confirmations]

\* Variant: the body of the bitcoin override, copied with one field renamed.
with_monero_finality_confirmations_Both(self, monero_finality_confirmations) ==
    [self EXCEPT !.bitcoin_finality_confirmations = monero_finality_confirmations,
                 !.monero_finality_confirmations = monero_finality_confirmations]

\* Config::with_monero_finality_confirmations(mut self, n) -> Config
with_monero_finality_confirmations(self, monero_finality_confirmations) ==
    [self EXCEPT !.monero_finality_confirmations = monero_finality_confirmations]

NoConfig ==
    [ bitcoin_lock_confirmed_timeout |-> 0,
      bitcoin_finality_confirmations |-> 0,
      bitcoin_avg_block_time         |-> 0,
      bitcoin_cancel_timelock        |-> 0,
      bitcoin_punish_timelock        |-> 0,
      bitcoin_network                |-> "none",
      monero_avg_block_time          |-> 0,
      monero_finality_confirmations  |-> 0,
      monero_network                 |-> "none" ]

Call(fn, self, arg) == [fn |-> fn, self |-> self, arg |-> arg]

NoCall == Call("none", NoConfig, 0)

\* let config = T::get_config();
GetConfig(t) ==
    /\ tier' = t
    /\ base' = get_config(t)
    /\ config' = get_config(t)
    /\ call' = Call("get_config", NoConfig, 0)
    /\ UNCHANGED <<attempt, interval, farVars>>

\* let config = config.with_bitcoin_finality_confirmations(n);
WithBitcoinFinalityConfirmations(n) ==
    /\ tier # "none"
    /\ config' = with_bitcoin_finality_confirmations(config, n)
    /\ call' = Call("with_bitcoin_finality_confirmations", config, n)
    /\ UNCHANGED <<attempt, tier, base, interval, farVars>>

\* let config = config.with_monero_finality_confirmations(n);
WithMoneroFinalityConfirmations(n) ==
    /\ tier # "none"
    /\ config' = with_monero_finality_confirmations(config, n)
    /\ call' = Call("with_monero_finality_confirmations", config, n)
    /\ UNCHANGED <<attempt, tier, base, interval, farVars>>

\* config.bitcoin_sync_interval()
BitcoinSyncInterval ==
    /\ tier # "none"
    /\ interval' = bitcoin_sync_interval(config)
    /\ call' = Call("bitcoin_sync_interval", config, 0)
    /\ UNCHANGED <<attempt, tier, base, config, farVars>>

\* config.monero_sync_interval()
MoneroSyncInterval ==
    /\ tier # "none"
    /\ interval' = monero_sync_interval(config)
    /\ call' = Call("monero_sync_interval", config, 0)
    /\ UNCHANGED <<attempt, tier, base, config, farVars>>

\* sync_interval(t), as the unit tests call it
SyncInterval(t) ==
    /\ interval' = sync_interval(t)
    /\ call' = Call("sync_interval", NoConfig, t)
    /\ UNCHANGED <<attempt, tier, base, config, farVars>>

BlockTimes == {from_secs(n) : n \in 0..MaxSecs} \cup {from_secs(100)}

Confirmations == 0..MaxConfirmations

----------------------------------------------------------------------------
\* Spot price (network/spot_price.rs).  Amounts are integer counts of the
\* smallest unit: satoshi for bitcoin::Amount (serde as_sat), piconero for
\* monero::Amount.

\* Amounts 0..MaxAmount, and the 100_000 of the snapshot test, are tried.
MaxAmount == 2

Amounts == 0..MaxAmount \cup {100000}

\* bitcoin::Network and ::monero::Network, the chain libraries' identifiers
BitcoinChains == {"Bitcoin", "Testnet", "Signet", "Regtest"}

MoneroChains == {"Mainnet", "Stagenet", "Testnet"}

\* enum BitcoinNetwork, enum MoneroNetwork
BitcoinNetwork == {"Mainnet", "Testnet", "Signet", "Regtest"}

MoneroNetwork == {"Mainnet", "Stagenet", "Testnet"}

\* struct BlockchainNetwork
BlockchainNetwork == [bitcoin : BitcoinNetwork, monero : MoneroNetwork]

\* Variant: the Signet arm repeats the Testnet arm.
BitcoinNetwork_from_SignetAsTestnet(network) ==
    CASE network = "Bitcoin" -> "Mainnet"
      [] network = "Testnet" -> "Testnet"
      [] network = "Signet" -> "Testnet"
      [] network = "Regtest" -> "Regtest"

\* impl From<bitcoin::Network> for BitcoinNetwork
BitcoinNetwork_from(network) ==
    CASE network = "Bitcoin" -> "Mainnet"
      [] network = "Testnet" -> "Testnet"
      [] network = "Signet" -> "Signet"
      [] network = "Regtest" -> "Regtest"

\* impl From<::monero::Network> for MoneroNetwork
MoneroNetwork_from(network) ==
    CASE network = "Mainnet" -> "Mainnet"
      [] network = "Stagenet" -> "Stagenet"
      [] network = "Testnet" -> "Testnet"

\* Variant: only the bitcoin component is compared.
BlockchainNetwork_eq_BitcoinOnly(x, y) == x.bitcoin = y.bitcoin

\* #[derive(PartialEq)] on BlockchainNetwork: field by field
BlockchainNetwork_eq(x, y) == x.bitcoin = y.bitcoin /\ x.monero = y.monero

NoNetwork == [bitcoin |-> "none", monero |-> "none"]

\* struct Request
Request(btc, blockchain_network) ==
    [btc |-> btc, blockchain_network |-> blockchain_network]

NoRequest == Request(0, NoNetwork)

\* enum Response and enum Error: one record shape for all variants, the
\* fields a variant does not have are left at zero.
Variant(v, xmr, min, max, buy, cli, asb) ==
    [variant |-> v, xmr |-> xmr, min |-> min, max |-> max, buy |-> buy,
     cli |-> cli, asb |-> asb]

Response_Xmr(amount) == Variant("Xmr", amount, 0, 0, 0, NoNetwork, NoNetwork)

Error_NoSwapsAccepted == Variant("NoSwapsAccepted", 0, 0, 0, 0, NoNetwork, NoNetwork)

Error_AmountBelowMinimum(min, buy) ==
    Variant("AmountBelowMinimum", 0, min, 0, buy, NoNetwork, NoNetwork)

Error_AmountAboveMaximum(max, buy) ==
    Variant("AmountAboveMaximum", 0, 0, max, buy, NoNetwork, NoNetwork)

Error_BalanceTooLow(buy) == Variant("BalanceTooLow", 0, 0, 0, buy, NoNetwork, NoNetwork)

Error_BlockchainNetworkMismatch(cli, asb) ==
    Variant("BlockchainNetworkMismatch", 0, 0, 0, 0, cli, asb)

Error_Other == Variant("Other", 0, 0, 0, 0, NoNetwork, NoNetwork)

NoResponse == Variant("none", 0, 0, 0, 0, NoNetwork, NoNetwork)

DecodeError == Variant("decode error", 0, 0, 0, 0, NoNetwork, NoNetwork)

Responses ==
    {Response_Xmr(a) : a \in Amounts}
        \cup {Error_NoSwapsAccepted, Error_Other}
        \cup {Error_AmountBelowMinimum(m, b) : m \in Amounts, b \in Amounts}
        \cup {Error_AmountAboveMaximum(m, b) : m \in Amounts, b \in Amounts}
        \cup {Error_BalanceTooLow(b) : b \in Amounts}
        \cup {Error_BlockchainNetworkMismatch(c, a) :
                c \in BlockchainNetwork, a \in BlockchainNetwork}

\* The wire encoding, as the sequence of tokens of the structured encoding
\* (the snapshot test prints it as JSON): punctuation, strings and numbers.
Punct(c) == [t |-> c, s |-> "", n |-> 0]

Str(str) == [t |-> "string", s |-> str, n |-> 0]

Num(num) == [t |-> "number", s |-> "", n |-> num]

\* {"key":value}
Object1(key, value) == <<Punct("{"), Str(key), Punct(":")>> \o value \o <<Punct("}")>>

\* {"key1":value1,"key2":value2}
Object2(key1, value1, key2, value2) ==
    <<Punct("{"), Str(key1), Punct(":")>> \o value1
        \o <<Punct(","), Str(key2), Punct(":")>> \o value2 \o <<Punct("}")>>

\* #[derive(Serialize)] on BlockchainNetwork
BlockchainNetwork_serialize(x) ==
    Object2("bitcoin", <<Str(x.bitcoin)>>, "monero", <<Str(x.monero)>>)

\* Variant: both sides are written from the cli value.
Error_serialize_CliTwice(e) ==
    CASE e.variant = "NoSwapsAccepted" -> <<Str("NoSwapsAccepted")>>
      [] e.variant = "AmountBelowMinimum" ->
            Object1("AmountBelowMinimum",
                    Object2("min", <<Num(e.min)>>, "buy", <<Num(e.buy)>>))
      [] e.variant = "AmountAboveMaximum" ->
            Object1("AmountAboveMaximum",
                    Object2("max", <<Num(e.max)>>, "buy", <<Num(e.buy)>>))
      [] e.variant = "BalanceTooLow" ->
            Object1("BalanceTooLow", Object1("buy", <<Num(e.buy)>>))
      [] e.variant = "BlockchainNetworkMismatch" ->
            Object1("BlockchainNetworkMismatch",
                    Object2("cli", BlockchainNetwork_serialize(e.cli),
                            "asb", BlockchainNetwork_serialize(e.cli)))
      [] e.variant = "Other" -> <<Str("Other")>>

\* #[derive(Serialize)] on Error: a unit variant is its name, a struct
\* variant an object keyed by its name; amounts with serde as_sat.
Error_serialize(e) ==
    CASE e.variant = "NoSwapsAccepted" -> <<Str("NoSwapsAccepted")>>
      [] e.variant = "AmountBelowMinimum" ->
            Object1("AmountBelowMinimum",
                    Object2("min", <<Num(e.min)>>, "buy", <<Num(e.buy)>>))
      [] e.variant = "AmountAboveMaximum" ->
            Object1("AmountAboveMaximum",
                    Object2("max", <<Num(e.max)>>, "buy", <<Num(e.buy)>>))
      [] e.variant = "BalanceTooLow" ->
            Object1("BalanceTooLow", Object1("buy", <<Num(e.buy)>>))
      [] e.variant = "BlockchainNetworkMismatch" ->
            Object1("BlockchainNetworkMismatch",
                    Object2("cli", BlockchainNetwork_serialize(e.cli),
                            "asb", BlockchainNetwork_serialize(e.asb)))
      [] e.variant = "Other" -> <<Str("Other")>>

\* #[derive(Serialize)] on Response
Response_serialize(r) ==
    IF r.variant = "Xmr"
    THEN Object1("Xmr", <<Num(r.xmr)>>)
    ELSE Object1("Error", Error_serialize(r))

\* Reading the tokens back.  IsObject1(w, key): w is {"key": ...}

IsObject1(w, key) ==
    /\ Len(w) >= 5
    /\ w[1] = Punct("{") /\ w[2] = Str(key) /\ w[3] = Punct(":") /\ w[Len(w)] = Punct("}")

\* the value of {"key":value}
Inner(w) == SubSeq(w, 4, Len(w) - 1)

IsNumber(w) == Len(w) = 1 /\ w[1].t = "number"

IsString(w) == Len(w) = 1 /\ w[1].t = "string"

\* {"key1":<number>,"key2":<number>}
IsNumbers2(w, key1, key2) ==
    /\ Len(w) = 9
    /\ w[1] = Punct("{") /\ w[2] = Str(key1) /\ w[3] = Punct(":") /\ w[4].t = "number"
    /\ w[5] = Punct(",") /\ w[6] = Str(key2) /\ w[7] = Punct(":") /\ w[8].t = "number"
    /\ w[9] = Punct("}")

\* #[derive(Deserialize)] on BlockchainNetwork
BlockchainNetwork_deserialize(w) ==
    IF /\ Len(w) = 9
       /\ w[1] = Punct("{") /\ w[2] = Str("bitcoin") /\ w[3] = Punct(":")
       /\ w[4].t = "string" /\ w[4].s \in BitcoinNetwork
       /\ w[5] = Punct(",") /\ w[6] = Str("monero") /\ w[7] = Punct(":")
       /\ w[8].t = "string" /\ w[8].s \in MoneroNetwork
       /\ w[9] = Punct("}")
    THEN [bitcoin |-> w[4].s, monero |-> w[8].s]
    ELSE NoNetwork

\* {"cli":<network>,"asb":<network>}
IsNetworks2(w) ==
    /\ Len(w) = 25
    /\ w[1] = Punct("{") /\ w[2] = Str("cli") /\ w[3] = Punct(":")
    /\ BlockchainNetwork_deserialize(SubSeq(w, 4, 12)) # NoNetwork
    /\ w[13] = Punct(",") /\ w[14] = Str("asb") /\ w[15] = Punct(":")
    /\ BlockchainNetwork_deserialize(SubSeq(w, 16, 24)) # NoNetwork
    /\ w[25] = Punct("}")

\* #[derive(Deserialize)] on Error
Error_deserialize(w) ==
    CASE w = <<Str("NoSwapsAccepted")>> -> Error_NoSwapsAccepted
      [] w = <<Str("Other")>> -> Error_Other
      [] IsObject1(w, "AmountBelowMinimum") /\ IsNumbers2(Inner(w), "min", "buy") ->
            Error_AmountBelowMinimum(Inner(w)[4].n, Inner(w)[8].n)
      [] IsObject1(w, "AmountAboveMaximum") /\ IsNumbers2(Inner(w), "max", "buy") ->
            Error_AmountAboveMaximum(Inner(w)[4].n, Inner(w)[8].n)
      [] IsObject1(w, "BalanceTooLow") /\ IsObject1(Inner(w), "buy")
            /\ IsNumber(Inner(Inner(w))) ->
            Error_BalanceTooLow(Inner(Inner(w))[1].n)
      [] IsObject1(w, "BlockchainNetworkMismatch") /\ IsNetworks2(Inner(w)) ->
            Error_BlockchainNetworkMismatch(
                BlockchainNetwork_deserialize(SubSeq(Inner(w), 4, 12)),
                BlockchainNetwork_deserialize(SubSeq(Inner(w), 16, 24)))
      [] OTHER -> DecodeError

\* #[derive(Deserialize)] on Response
Response_deserialize(w) ==
    CASE IsObject1(w, "Xmr") /\ IsNumber(Inner(w)) -> Response_Xmr(Inner(w)[1].n)
      [] IsObject1(w, "Error") -> Error_deserialize(Inner(w))
      [] OTHER -> DecodeError

\* What the responder may answer to a request whose network is its own:
\* a quote or one of the rejections its policy produces.
PolicyResponses(request) ==
    {Response_Xmr(a) : a \in Amounts}
        \cup {Error_NoSwapsAccepted, Error_Other, Error_BalanceTooLow(request.btc)}
        \cup {Error_AmountBelowMinimum(m, request.btc) : m \in Amounts}
        \cup {Error_AmountAboveMaximum(m, request.btc) : m \in Amounts}

\* The responder's answer to a request: the network check comes first.
negotiate(request, asb) ==
    IF ~BlockchainNetwork_eq(request.blockchain_network, asb)
    THEN {Error_BlockchainNetworkMismatch(request.blockchain_network, asb)}
    ELSE PolicyResponses(request)

NoSpot ==
    [ cli_chains |-> NoNetwork,
      asb_chains |-> NoNetwork,
      request    |-> NoRequest,
      asb        |-> NoNetwork,
      matched    |-> FALSE,
      response   |-> NoResponse,
      wire       |-> << >>,
      decoded    |-> NoResponse ]

\* A request of `btc` from a cli on chains (cb, cm) reaches an asb on chains
\* (ab, am), once the exchange before it is over; both sides build their
\* BlockchainNetwork with the From impls.
Negotiate(btc, cb, cm, ab, am) ==
    LET cli == [bitcoin |-> BitcoinNetwork_from(cb), monero |-> MoneroNetwork_from(cm)]
        asb == [bitcoin |-> BitcoinNetwork_from(ab), monero |-> MoneroNetwork_from(am)]
        request == Request(btc, cli)
    IN  /\ spot = NoSpot \/ spot.decoded # NoResponse
        /\ \E r \in negotiate(request, asb) :
            spot' = [NoSpot EXCEPT
                !.cli_chains = [bitcoin |-> cb, monero |-> cm],
                !.asb_chains = [bitcoin |-> ab, monero |-> am],
                !.request = request,
                !.asb = asb,
                !.matched = BlockchainNetwork_eq(cli, asb),
                !.response = r]
        /\ UNCHANGED <<attempt, envVars, xmr_btc, peer, swap>>

\* Any Response value is put together and handed to the codec.
Reply(r) ==
    /\ spot = NoSpot \/ spot.decoded # NoResponse
    /\ spot' = [NoSpot EXCEPT !.response = r]
    /\ UNCHANGED <<attempt, envVars, xmr_btc, peer, swap>>

\* The codec writes the response.
Encode ==
    /\ spot.response # NoResponse
    /\ spot.wire = << >>
    /\ spot' = [spot EXCEPT !.wire = Response_serialize(spot.response)]
    /\ UNCHANGED <<attempt, envVars, xmr_btc, peer, swap>>

\* The codec of the other side reads it.
Decode ==
    /\ spot.wire # << >>
    /\ spot.decoded = NoResponse
    /\ spot' = [spot EXCEPT !.decoded = Response_deserialize(spot.wire)]
    /\ UNCHANGED <<attempt, envVars, xmr_btc, peer, swap>>

----------------------------------------------------------------------------
\* The xmr-btc configuration (xmr-btc/src/config.rs)

mainnet_BOB_TIME_TO_ACT == from_secs(10 * 60)

mainnet_BITCOIN_FINALITY_CONFIRMATIONS == 3

mainnet_BITCOIN_AVG_BLOCK_TIME == from_secs(10 * 60)

regtest_BOB_TIME_TO_ACT == from_secs(10)

regtest_BITCOIN_FINALITY_CONFIRMATIONS == 1

regtest_BITCOIN_AVG_BLOCK_TIME == from_secs(5)

\* Config::mainnet()
Config_mainnet ==
    [ bob_time_to_act                |-> mainnet_BOB_TIME_TO_ACT,
      bitcoin_finality_confirmations |-> mainnet_BITCOIN_FINALITY_CONFIRMATIONS,
      bitcoin_avg_block_time         |-> mainnet_BITCOIN_AVG_BLOCK_TIME ]

\* Config::regtest()
Config_regtest ==
    [ bob_time_to_act                |-> regtest_BOB_TIME_TO_ACT,
      bitcoin_finality_confirmations |-> regtest_BITCOIN_FINALITY_CONFIRMATIONS,
      bitcoin_avg_block_time         |-> regtest_BITCOIN_AVG_BLOCK_TIME ]

\* The Config a caller holds, and the constructor it came from
Constructed(fn, c) == [fn |-> fn, config |-> c]

NoXmrBtc ==
    Constructed("none", [ bob_time_to_act                |-> 0,
                          bitcoin_finality_confirmations |-> 0,
                          bitcoin_avg_block_time         |-> 0 ])

\* let config = Config::mainnet();
ConfigMainnet ==
    /\ xmr_btc' = Constructed("mainnet", Config_mainnet)
    /\ UNCHANGED <<attempt, envVars, spot, peer, swap>>

\* let config = Config::regtest();
ConfigRegtest ==
    /\ xmr_btc' = Constructed("regtest", Config_regtest)
    /\ UNCHANGED <<attempt, envVars, spot, peer, swap>>

----------------------------------------------------------------------------
\* An attempt together with its peer: the dialer at the other end of the
\* substream, and the two directions of the substream between them.

\* The dialer before it has written anything
Dialer0 == [pc |-> "write0", to_alice |-> << >>, to_bob |-> << >>]

\* The messages of a dialer that follows the protocol: well-formed, and
\* valid where Alice validates them.
DialerFrames(T) ==
    {f \in Frames :
        /\ f.type = T
        /\ T = "Message0" => State0_receive(f).ok
        /\ T = "Message2" => State2_receive(f).ok}

\* The dialer writes its MessageN; the substream takes it.
DialerWrite(a, here, there, T) ==
    /\ peer[a].pc = here
    /\ \E f \in DialerFrames(T) :
            peer' = [peer EXCEPT ![a].pc = there,
                                 ![a].to_alice = Append(@, f)]
    /\ UNCHANGED <<attempt, envVars, xmr_btc, spot, swap>>

\* The dialer reads Alice's next message off the substream.
DialerRead(a, here, there) ==
    /\ peer[a].pc = here
    /\ peer[a].to_bob # << >>
    /\ peer' = [peer EXCEPT ![a].pc = there,
                            ![a].to_bob = Tail(@)]
    /\ UNCHANGED <<attempt, envVars, xmr_btc, spot, swap>>

\* The dialer: Message0 first, Message1 after Alice's Message0, Message2
\* after Alice's Message2.
DialerStep(a) ==
    \/ DialerWrite(a, "write0", "read0", "Message0")
    \/ DialerRead(a, "read0", "write1")
    \/ DialerWrite(a, "write1", "read2", "Message1")
    \/ DialerRead(a, "read2", "write2")
    \/ DialerWrite(a, "write2", "done", "Message2")

\* Alice's read_message returns the next message the dialer wrote, once
\* there is one.
AliceRead(a) ==
    /\ peer[a].to_alice # << >>
    /\ Read0(a) \/ Read1(a) \/ Read2(a)
    /\ attempt'[a].buf = Head(peer[a].to_alice)
    /\ peer' = [peer EXCEPT ![a].to_alice = Tail(@)]

\* what the step wrote: the messages of the write calls it added to the
\* attempt's history
Written(a) ==
    LET h == attempt'[a].history
        new == SubSeq(h, Len(attempt[a].history) + 1, Len(h))
    IN  [i \in 1..Len(new) |-> new[i].msg]

\* Alice's write_message hands her bytes to the substream, which delivers.
AliceWrite(a) ==
    /\ Write0(a) \/ Write2(a)
    /\ attempt'[a].pc # "ret"
    /\ peer' = [peer EXCEPT ![a].to_bob = @ \o Written(a)]

\* Alice's own, well-formed message serializes.
AliceSerialize(a) ==
    /\ Ser0(a) \/ Ser2(a)
    /\ attempt'[a].pc # "ret"
    /\ UNCHANGED peer

\* The steps of the future that do not touch the substream
AliceLocal(a) ==
    /\ \/ NextMessage0(a)
       \/ Deser0(a) \/ Recv0(a)
       \/ Deser1(a) \/ Recv1(a)
       \/ Deser2(a) \/ Recv2(a)
       \/ Return(a) \/ Emit(a)
    /\ UNCHANGED peer

AliceStep(a) == AliceRead(a) \/ AliceWrite(a) \/ AliceSerialize(a) \/ AliceLocal(a)

----------------------------------------------------------------------------
\* One swap after the handshake, seen from Bob's side, with his database and
\* his restart (tests/happy_path_restart_bob_after_comm.rs).  The role state
\* machines, the chains and the database are collaborators of this code:
\* they are modelled from their contracts.  Happy path: no timelock elapses.

\* Swap amounts are 1..MaxSwap tens of units, fees 1..MaxFee units.
MaxSwap == 2

MaxFee == 2

SwapAmounts == {10 * n : n \in 1..MaxSwap}

Fees == 1..MaxFee

\* bob_btc_starting_balance, alice_xmr_starting_balance: what the funded
\* wallet of each role holds at the start, for an amount to swap
StartingBalance(amount) == 10 * amount

Wallets(alice, bob, lock) == [alice |-> alice, bob |-> bob, lock |-> lock]

NoSwap ==
    [ btc_to_swap |-> 0,
      xmr_to_swap |-> 0,
      tx_fee      |-> 0,
      bob         |-> "none",
      bob_task    |-> "none",
      event_loop  |-> 0,
      db          |-> "none",
      resume_state |-> "none",
      alice       |-> "none",
      encsig      |-> "none",
      btc         |-> Wallets(0, 0, 0),
      xmr         |-> Wallets(0, 0, 0) ]

\* init_alice, init_bob and the spawns: both roles hold their State3, Bob's
\* btc wallet and Alice's xmr wallet are funded, Bob's database is empty,
\* Bob runs until is_encsig_sent.
InitSwap(btc, xmr, fee) ==
    /\ swap = NoSwap
    /\ swap' = [NoSwap EXCEPT
            !.btc_to_swap = btc,
            !.xmr_to_swap = xmr,
            !.tx_fee = fee,
            !.bob = "State3",
            !.bob_task = "run_until",
            !.event_loop = 1,
            !.alice = "State3",
            !.btc = Wallets(0, StartingBalance(btc), 0),
            !.xmr = Wallets(StartingBalance(xmr), 0, 0)]
    /\ UNCHANGED <<attempt, envVars, xmr_btc, spot, peer>>

\* Bob's task goes on: swap runs to a terminal state, run_until returns as
\* soon as is_encsig_sent holds of the state.
BobRuns ==
    \/ swap.bob_task = "resumed"
    \/ swap.bob_task = "run_until" /\ swap.bob # "EncSigSent"

\* Variant: the new state is returned without being written to the database.
BobMoved_Unsaved(to) == [swap EXCEPT !.bob = to]

\* One transition of Bob's state machine: the new state overwrites the
\* current state stored under the swap id.
BobMoved(to) == [swap EXCEPT !.bob = to, !.db = to]

otherVars == <<attempt, envVars, xmr_btc, spot, peer>>

\* Bob funds the lock on chain-1, paying the fee of his transaction.
BobLocksBtc(fee) ==
    /\ BobRuns /\ swap.bob = "State3"
    /\ swap' = [BobMoved("BtcLocked") EXCEPT
            !.btc = Wallets(swap.btc.alice,
                            swap.btc.bob - swap.btc_to_swap - fee,
                            swap.btc_to_swap)]
    /\ UNCHANGED otherVars

\* Alice sees the lock on chain-1 and funds the lock on chain-2, paying the
\* fee of her transaction.
AliceLocksXmr(fee) ==
    /\ swap.alice = "State3" /\ swap.btc.lock > 0
    /\ swap' = [swap EXCEPT
            !.alice = "XmrLocked",
            !.xmr = Wallets(swap.xmr.alice - swap.xmr_to_swap - fee,
                            swap.xmr.bob,
                            swap.xmr_to_swap)]
    /\ UNCHANGED otherVars

\* Bob sees the lock on chain-2.
BobSeesXmrLock ==
    /\ BobRuns /\ swap.bob = "BtcLocked" /\ swap.xmr.lock > 0
    /\ swap' = BobMoved("XmrLocked")
    /\ UNCHANGED otherVars

\* Bob hands his encrypted signature to his event loop.
BobSendsEncSig ==
    /\ BobRuns /\ swap.bob = "XmrLocked"
    /\ swap' = [BobMoved("EncSigSent") EXCEPT !.encsig = "sent"]
    /\ UNCHANGED otherVars

\* run_until(.., is_encsig_sent, ..) returns the state once it is the target.
BobStops ==
    /\ swap.bob_task = "run_until" /\ swap.bob = "EncSigSent"
    /\ swap' = [swap EXCEPT !.bob_task = "stopped"]
    /\ UNCHANGED otherVars

\* Database::open, get_state(bob_swap_id), init_bob_event_loop,
\* bob::swap::swap(resume_state, ..)
BobRestarts ==
    /\ swap.bob_task = "stopped"
    /\ swap' = [swap EXCEPT
            !.resume_state = swap.db,
            !.bob = swap.db,
            !.event_loop = swap.event_loop + 1,
            !.bob_task = "resumed"]
    /\ UNCHANGED otherVars

\* The encrypted signature reaches Alice.
AliceReceivesEncSig ==
    /\ swap.alice = "XmrLocked" /\ swap.encsig = "sent"
    /\ swap' = [swap EXCEPT !.alice = "EncSigLearned", !.encsig = "delivered"]
    /\ UNCHANGED otherVars

\* Alice redeems on chain-1: the lock, less the fee of the redeem
\* transaction, goes to her wallet; her swap is complete.
AliceRedeemsBtc ==
    /\ swap.alice = "EncSigLearned"
    /\ swap' = [swap EXCEPT
            !.alice = "BtcRedeemed",
            !.btc = Wallets(swap.btc.alice + swap.btc.lock - swap.tx_fee,
                            swap.btc.bob, 0)]
    /\ UNCHANGED otherVars

\* Bob sees Alice's redeem on chain-1.
BobSeesBtcRedeem ==
    /\ BobRuns /\ swap.bob = "EncSigSent" /\ swap.alice = "BtcRedeemed"
    /\ swap' = BobMoved("BtcRedeemed")
    /\ UNCHANGED otherVars

\* Bob redeems on chain-2: the lock is his.
BobRedeemsXmr ==
    /\ BobRuns /\ swap.bob = "BtcRedeemed"
    /\ swap' = [BobMoved("XmrRedeemed") EXCEPT
            !.xmr = Wallets(swap.xmr.alice, swap.xmr.bob + swap.xmr.lock, 0)]
    /\ UNCHANGED otherVars

\* bob::swap::swap returns the terminal state.
BobReturns ==
    /\ swap.bob_task = "resumed" /\ swap.bob = "XmrRedeemed"
    /\ swap' = [swap EXCEPT !.bob_task = "returned"]
    /\ UNCHANGED otherVars

BobStep ==
    \/ \E fee \in Fees : BobLocksBtc(fee)
    \/ BobSeesXmrLock
    \/ BobSendsEncSig
    \/ BobStops
    \/ BobRestarts
    \/ BobSeesBtcRedeem
    \/ BobRedeemsXmr
    \/ BobReturns

AliceSwapStep ==
    \/ \E fee \in Fees : AliceLocksXmr(fee)
    \/ AliceReceivesEncSig
    \/ AliceRedeemsBtc

----------------------------------------------------------------------------

Init ==
    /\ attempt = [a \in Peers |-> Idle]
    /\ tier = "none"
    /\ base = NoConfig
    /\ config = NoConfig
    /\ call = NoCall
    /\ interval = 0
    /\ xmr_btc = NoXmrBtc
    /\ spot = NoSpot
    /\ peer = [a \in Peers |-> Dialer0]
    /\ swap = NoSwap

Next ==
    \/ \E a \in Peers : Run(a) /\ UNCHANGED peer
    \/ \E a \in Peers : NextMessage0(a) /\ UNCHANGED peer
    \/ \E a \in Peers : Read0(a) /\ UNCHANGED peer
    \/ \E a \in Peers : Deser0(a) /\ UNCHANGED peer
    \/ \E a \in Peers : Recv0(a) /\ UNCHANGED peer
    \/ \E a \in Peers : Ser0(a) /\ UNCHANGED peer
    \/ \E a \in Peers : Write0(a) /\ UNCHANGED peer
    \/ \E a \in Peers : Read1(a) /\ UNCHANGED peer
    \/ \E a \in Peers : Deser1(a) /\ UNCHANGED peer
    \/ \E a \in Peers : Recv1(a) /\ UNCHANGED peer
    \/ \E a \in Peers : Ser2(a) /\ UNCHANGED peer
    \/ \E a \in Peers : Write2(a) /\ UNCHANGED peer
    \/ \E a \in Peers : Read2(a) /\ UNCHANGED peer
    \/ \E a \in Peers : Deser2(a) /\ UNCHANGED peer
    \/ \E a \in Peers : Recv2(a) /\ UNCHANGED peer
    \/ \E a \in Peers : Return(a) /\ UNCHANGED peer
    \/ \E a \in Peers : Emit(a) /\ UNCHANGED peer

\* The handshake: attempts of the peers, interleaved.
Spec == Init /\ [][Next]_vars

\* One poll of the future of attempt a, alone
Poll(a) == Step(a) /\ UNCHANGED peer

\* The handshake with every started future polled until it has finished, as
\* the swarm's executor does, and every pending read or write completing
\* (with a frame or with an error).
FairSpec == Init /\ [][Next]_vars /\ \A a \in Peers : WF_vars(Poll(a))

EnvNext ==
    \/ \E t \in Tiers : GetConfig(t)
    \/ \E n \in Confirmations : WithBitcoinFinalityConfirmations(n)
    \/ \E n \in Confirmations : WithMoneroFinalityConfirmations(n)
    \/ BitcoinSyncInterval
    \/ MoneroSyncInterval
    \/ \E t \in BlockTimes : SyncInterval(t)
    \/ ConfigMainnet
    \/ ConfigRegtest

\* The configuration: a caller that selects a tier, overrides finality
\* confirmations, asks for sync intervals and constructs the xmr-btc Config,
\* in any order.
EnvSpec == Init /\ [][EnvNext]_vars

DuetNext ==
    \/ \E a \in Peers : Run(a) /\ UNCHANGED peer
    \/ \E a \in Peers : AliceRead(a)
    \/ \E a \in Peers : AliceWrite(a)
    \/ \E a \in Peers : AliceSerialize(a)
    \/ \E a \in Peers : AliceLocal(a)
    \/ \E a \in Peers : DialerStep(a)

\* The handshake against dialers that follow the protocol, over substreams
\* that deliver: every started future is polled until it has finished and
\* every dialer keeps running.
DuetSpec ==
    /\ Init /\ [][DuetNext]_vars
    /\ \A a \in Peers : WF_vars(AliceStep(a)) /\ WF_vars(DialerStep(a))

RestartNext ==
    \/ \E btc \in SwapAmounts, xmr \in SwapAmounts, fee \in Fees : InitSwap(btc, xmr, fee)
    \/ BobStep
    \/ AliceSwapStep

\* The restart test: the swap is set up, both roles' tasks are polled until
\* they return, and the test restarts Bob once run_until has returned.
RestartSpec ==
    /\ Init /\ [][RestartNext]_vars
    /\ WF_vars(BobStep) /\ WF_vars(AliceSwapStep)

SpotNext ==
    \/ \E btc \in Amounts, cb \in BitcoinChains, cm \in MoneroChains,
          ab \in BitcoinChains, am \in MoneroChains : Negotiate(btc, cb, cm, ab, am)
    \/ \E r \in Responses : Reply(r)
    \/ Encode
    \/ Decode

\* The spot-price exchange: requests answered, responses encoded and decoded.
SpotSpec == Init /\ [][SpotNext]_vars

----------------------------------------------------------------------------
\* Reading an attempt's history

Hist(a) == attempt[a].history

IsRead(e) == e.op = "read" /\ e.ok

IsDeserialize(e) == e.op = "deserialize" /\ e.ok

IsFold(e) == e.op = "fold" /\ e.ok

IsFoldCall(e) == e.op = "fold"

IsWrite(e) == e.op = "write" /\ e.ok

IsFailure(e) == ~e.ok

Reads(a) == SelectSeq(Hist(a), IsRead)

Deserialized(a) == SelectSeq(Hist(a), IsDeserialize)

Folds(a) == SelectSeq(Hist(a), IsFold)

FoldCalls(a) == SelectSeq(Hist(a), IsFoldCall)

Writes(a) == SelectSeq(Hist(a), IsWrite)

Failures(a) == SelectSeq(Hist(a), IsFailure)

MsgsOf(s) == [i \in 1..Len(s) |-> s[i].msg]

StatesOf(s) == [i \in 1..Len(s) |-> s[i].state]

MessageN(n) == <<"Message0", "Message1", "Message2">>[n + 1]

StateN(n) == <<"State0", "State1", "State2", "State3">>[n + 1]

\* Alice's own MessageN was written at position i of the history
WroteAt(a, i, m) == IsWrite(Hist(a)[i]) /\ Hist(a)[i].msg = m

\* the peer's MessageN was read, resp. folded, at position i
ReadAt(a, i, m) == IsRead(Hist(a)[i]) /\ Hist(a)[i].msg = m

FoldedAt(a, i, m) == IsFold(Hist(a)[i]) /\ Hist(a)[i].msg = m

\* before position i: own message m written, peer's message m read and folded
WrittenBefore(a, i, m) == \E j \in 1..(i - 1) : WroteAt(a, j, m)

ReadAndFoldedBefore(a, i, m) ==
    \E k \in 1..(i - 1) :
        /\ FoldedAt(a, k, m)
        /\ \E j \in 1..(k - 1) : ReadAt(a, j, m)

DoneOk == [tag |-> "Done", res |-> Ok("State3")]

Emitted(a) == { attempt[a].events[i] : i \in 1..Len(attempt[a].events) }

Finished(a) == attempt[a].pc \in {"ret", "done"}

----------------------------------------------------------------------------
\* C1 as stated: for N in {0,1}, Alice writes her Message(N+1) only after
\* she has written her own MessageN and read and folded the peer's MessageN.
C1_AsStated ==
    \A a \in Peers : \A N \in {0, 1} : \A i \in 1..Len(Hist(a)) :
        WroteAt(a, i, MessageN(N + 1)) =>
            /\ WrittenBefore(a, i, MessageN(N))
            /\ ReadAndFoldedBefore(a, i, MessageN(N))

\* C1 amended: Alice writes no Message1 at all; she writes her Message2 only
\* after she has written her Message0 and has read and folded the peer's
\* Message0 and Message1.
C1_Message2AfterRounds01 ==
    \A a \in Peers : \A i \in 1..Len(Hist(a)) :
        /\ ~WroteAt(a, i, "Message1")
        /\ WroteAt(a, i, "Message2") =>
            /\ WrittenBefore(a, i, "Message0")
            /\ ReadAndFoldedBefore(a, i, "Message0")
            /\ ReadAndFoldedBefore(a, i, "Message1")

C1_Witness ==
    \E a \in Peers : \E i \in 1..Len(Hist(a)) : WroteAt(a, i, "Message2")

\* C2: Done(Ok(State3)) is reported, and a State3 exists, only if the
\* peer's Message0, Message1 and Message2 were each read once, in that
\* order, each deserialized and each folded, into State0, State1 and State2.
C2_State3ConsumedEveryRound ==
    \A a \in Peers :
        /\ DoneOk \in Emitted(a) => attempt[a].state = "State3"
        /\ attempt[a].state = "State3" =>
            /\ MsgsOf(Reads(a)) = <<"Message0", "Message1", "Message2">>
            /\ MsgsOf(Deserialized(a)) = <<"Message0", "Message1", "Message2">>
            /\ MsgsOf(Folds(a)) = <<"Message0", "Message1", "Message2">>
            /\ StatesOf(Folds(a)) = <<"State0", "State1", "State2">>
            /\ Failures(a) = << >>

C2_Witness == \E a \in Peers : DoneOk \in Emitted(a)

DeserializeFailed(a, n) ==
    /\ Failures(a) # << >>
    /\ Failures(a)[1].op = "deserialize"
    /\ Failures(a)[1].msg = MessageN(n)

DeserializeContext(n) ==
    <<"failed to deserialize message0",
      "failed to deserialize message1",
      "failed to deserialize message2">>[n + 1]

\* the bytes last read are the encoding of a MessageN of the peer
Decodes(a, n) ==
    /\ Reads(a) # << >>
    /\ Reads(a)[Len(Reads(a))].msg = MessageN(n)

\* C3: bytes that do not deserialize as the expected MessageN end the
\* attempt with the error tagged "failed to deserialize messageN", a tag no
\* other failure carries; the attempt still owns StateN and nothing was
\* folded for that round; a finished attempt produces no further state.
C3_DeserializeErrorTagged ==
    /\ [](\A a \in Peers : \A n \in 0..2 :
            /\ Finished(a) =>
                (DeserializeFailed(a, n) <=>
                    attempt[a].result.err.context = DeserializeContext(n))
            /\ DeserializeFailed(a, n) =>
                /\ Finished(a) /\ ~attempt[a].result.ok
                /\ ~Decodes(a, n)
                /\ attempt[a].state = StateN(n)
                /\ Len(FoldCalls(a)) = n
            /\ attempt[a].pc = <<"recv0", "recv1", "recv2">>[n + 1] => Decodes(a, n))
    /\ [][\A a \in Peers :
            Finished(a) =>
                /\ attempt'[a].state = attempt[a].state
                /\ attempt'[a].result = attempt[a].result
                /\ attempt'[a].history = attempt[a].history]_vars

C3_Witness ==
    \E a \in Peers :
        /\ attempt[a].pc = "done"
        /\ DeserializeFailed(a, 1)
        /\ Reads(a)[2].msg = "malformed"

\* C4: an attempt in which any call failed ends in Done(Err) and never in
\* Done(Ok(State3)); Done(Ok) is reported only if no call failed and the
\* last call was the successful fold of the peer's Message2 into State2.
C4_FailureNeverSuccess ==
    \A a \in Peers :
        /\ Failures(a) # << >> =>
            /\ Finished(a)
            /\ ~attempt[a].result.ok
            /\ attempt[a].result.err # NoError
            /\ DoneOk \notin Emitted(a)
            /\ attempt[a].pc = "done" =>
                attempt[a].events = <<[tag |-> "Done", res |-> attempt[a].result]>>
        /\ DoneOk \in Emitted(a) =>
            /\ Failures(a) = << >>
            /\ Hist(a)[Len(Hist(a))] = H("fold", "Message2", "State2", TRUE)

C4_Witness ==
    \E a \in Peers :
        /\ attempt[a].pc = "done"
        /\ Failures(a) # << >>
        /\ Failures(a)[1].op = "fold"
        /\ Failures(a)[1].msg = "Message2"

\* C5: a step of one attempt leaves every other attempt as it was, and in
\* the end every started attempt has reported Done(Ok(State3)) unless one
\* of its own calls failed, whatever happened to the other attempts.
C5_AttemptsIndependent ==
    /\ [][\A a \in Peers :
            attempt'[a] # attempt[a] =>
                \A b \in Peers \ {a} : attempt'[b] = attempt[b]]_vars
    /\ <>[](\A b \in Peers :
            \/ attempt[b].pc = "idle"
            \/ Failures(b) # << >>
            \/ attempt[b].events = <<DoneOk>>)

C5_Witness ==
    \E a, b \in Peers :
        /\ a # b
        /\ attempt[a].pc = "done"
        /\ \E n \in 0..2 : DeserializeFailed(a, n)
        /\ attempt[b].pc = "done"
        /\ attempt[b].events = <<DoneOk>>

StateIndex(s) ==
    CASE s = "none" -> -1
      [] s = "State0" -> 0
      [] s = "State1" -> 1
      [] s = "State2" -> 2
      [] s = "State3" -> 3

\* C6: the state of an attempt only moves one step forward at a time; the
\* i-th call of receive is made on State(i-1) with the peer's Message(i-1),
\* so no state is consumed twice and no message is folded out of place.
C6_ForwardOnly ==
    /\ [](\A a \in Peers :
            /\ Len(FoldCalls(a)) <= 3
            /\ \A i \in 1..Len(FoldCalls(a)) :
                /\ FoldCalls(a)[i].state = StateN(i - 1)
                /\ FoldCalls(a)[i].msg = MessageN(i - 1)
            /\ StateIndex(attempt[a].state) \in
                 {Len(Folds(a)), Len(Folds(a)) - 1}
            /\ StateIndex(attempt[a].state) = Len(Folds(a)) - 1 =>
                 attempt[a].pc = "idle")
    /\ [][\A a \in Peers :
            attempt'[a].state # attempt[a].state =>
                StateIndex(attempt'[a].state) = StateIndex(attempt[a].state) + 1]_vars

C6_Witness ==
    \E a \in Peers : attempt[a].pc = "ok" /\ Len(FoldCalls(a)) = 3

\* C7 as stated: an attempt that reaches State3 has written exactly one
\* Message0, one Message1 and one Message2.
C7_AsStated ==
    \A a \in Peers :
        attempt[a].state = "State3" =>
            \A m \in MsgTypes :
                Cardinality({i \in 1..Len(Hist(a)) : WroteAt(a, i, m)}) = 1

\* C7 amended: an attempt that reaches State3 has written exactly two
\* messages, one Message0 and then one Message2, and no Message1, while it
\* has read three messages from the peer.
C7_TwoWritesThreeReads ==
    \A a \in Peers :
        attempt[a].state = "State3" =>
            /\ MsgsOf(Writes(a)) = <<"Message0", "Message2">>
            /\ Len(Reads(a)) = 3

C7_Witness ==
    \E a \in Peers : attempt[a].state = "State3" /\ attempt[a].pc = "done"

----------------------------------------------------------------------------
\* what the specification says of the interval r computed for block time t
IsSyncIntervalOf(t, r) ==
    /\ r >= from_secs(1)
    /\ t <= from_secs(10) => r = from_secs(1)
    /\ t >= from_secs(10) => 10 * r = t
    /\ t = from_secs(1) => r = from_secs(1)
    /\ t = from_secs(100) => r = from_secs(10)

\* C8: sync_interval(t) is a tenth of t and at least one second (1s for
\* t = 1s, 10s for t = 100s); bitcoin_sync_interval and monero_sync_interval
\* return it for the receiver's bitcoin, resp. monero, average block time.
C8_SyncInterval ==
    /\ call.fn = "sync_interval" => IsSyncIntervalOf(call.arg, interval)
    /\ call.fn = "bitcoin_sync_interval" =>
            IsSyncIntervalOf(call.self.bitcoin_avg_block_time, interval)
    /\ call.fn = "monero_sync_interval" =>
            IsSyncIntervalOf(call.self.monero_avg_block_time, interval)

C8_Witness ==
    /\ call.fn = "sync_interval"
    /\ call.arg = from_secs(100)
    /\ interval = from_secs(10)

\* C9: the Config of every tier, before and after any overrides of the
\* finality confirmations, has positive cancel and punish timelocks and a
\* lock-confirmed timeout longer than one average bitcoin block time.
C9_TiersConsistent ==
    tier # "none" =>
        \A c \in {base, config} :
            /\ c.bitcoin_cancel_timelock > 0
            /\ c.bitcoin_punish_timelock > 0
            /\ c.bitcoin_lock_confirmed_timeout > c.bitcoin_avg_block_time

C9_Witness ==
    /\ tier = "Regtest"
    /\ config.bitcoin_finality_confirmations = 0
    /\ config.monero_finality_confirmations = 0

\* C10: an override returns the receiver with the one field set to the
\* argument and the other eight fields as they were; the Config the caller
\* got from get_config stays as it was, also when get_config is called
\* again for the same tier.
C10_OverrideIsCopy ==
    /\ [](call.fn = "with_bitcoin_finality_confirmations" =>
            /\ config.bitcoin_finality_confirmations = call.arg
            /\ \A f \in ConfigFields \ {"bitcoin_finality_confirmations"} :
                    config[f] = call.self[f])
    /\ [](call.fn = "with_monero_finality_confirmations" =>
            /\ config.monero_finality_confirmations = call.arg
            /\ \A f \in ConfigFields \ {"monero_finality_confirmations"} :
                    config[f] = call.self[f])
    /\ [][tier # "none" /\ tier' = tier => base' = base]_vars

C10_Witness ==
    /\ call.fn = "with_monero_finality_confirmations"
    /\ call.arg # call.self.monero_finality_confirmations
    /\ call.self # base
    /\ config # base

----------------------------------------------------------------------------
\* Spot price

Negotiated == spot.request # NoRequest

\* C11: every Response value round-trips through the wire encoding: what is
\* decoded from the encoding of a response is that response (same variant,
\* same amounts, same two network pairs); no other Response value has the
\* same encoding; and Xmr(100000) is encoded as {"Xmr":100000}.
C11_ResponseRoundTrip ==
    /\ spot.decoded # NoResponse => spot.decoded = spot.response
    /\ spot.wire # << >> =>
            \A r \in Responses \ {spot.response} : Response_serialize(r) # spot.wire
    /\ spot.wire # << >> /\ spot.response = Response_Xmr(100000) =>
            spot.wire = <<Punct("{"), Str("Xmr"), Punct(":"), Num(100000), Punct("}")>>

C11_Witness ==
    /\ spot.response.variant = "BlockchainNetworkMismatch"
    /\ spot.response.cli # spot.response.asb
    /\ spot.decoded = spot.response

\* C12: a request whose blockchain_network differs from the responder's, in
\* the bitcoin component, the monero component or both, is answered, whatever
\* the btc amount, with Error(BlockchainNetworkMismatch {cli, asb}), cli the
\* request's network and asb the responder's; never with a quote or any
\* other rejection.
C12_MismatchRejected ==
    Negotiated
        /\ (\/ spot.request.blockchain_network.bitcoin # spot.asb.bitcoin
            \/ spot.request.blockchain_network.monero # spot.asb.monero)
    => /\ spot.response.variant = "BlockchainNetworkMismatch"
       /\ spot.response.cli = spot.request.blockchain_network
       /\ spot.response.asb = spot.asb
       /\ spot.response.xmr = 0 /\ spot.response.min = 0
       /\ spot.response.max = 0 /\ spot.response.buy = 0

C12_Witness ==
    /\ Negotiated
    /\ spot.request.btc = 100000
    /\ spot.request.blockchain_network.bitcoin = spot.asb.bitcoin
    /\ spot.request.blockchain_network.monero # spot.asb.monero
    /\ spot.response.variant = "BlockchainNetworkMismatch"

\* the BitcoinNetwork / MoneroNetwork a chain identifier is to convert to
ConvertsAsListed(chains, network) ==
    /\ chains.bitcoin = "Bitcoin" => network.bitcoin = "Mainnet"
    /\ chains.bitcoin = "Testnet" => network.bitcoin = "Testnet"
    /\ chains.bitcoin = "Signet" => network.bitcoin = "Signet"
    /\ chains.bitcoin = "Regtest" => network.bitcoin = "Regtest"
    /\ chains.monero = "Mainnet" => network.monero = "Mainnet"
    /\ chains.monero = "Stagenet" => network.monero = "Stagenet"
    /\ chains.monero = "Testnet" => network.monero = "Testnet"

\* C18: the conversions are defined for every chain identifier and map them
\* one to one as listed, so the BlockchainNetwork values of two deployments
\* are equal, and compare equal, exactly when both their bitcoin and their
\* monero chains are the same.
C18_ConversionsInjective ==
    Negotiated =>
        /\ spot.request.blockchain_network \in BlockchainNetwork
        /\ spot.asb \in BlockchainNetwork
        /\ ConvertsAsListed(spot.cli_chains, spot.request.blockchain_network)
        /\ ConvertsAsListed(spot.asb_chains, spot.asb)
        /\ spot.request.blockchain_network = spot.asb
                <=> spot.cli_chains = spot.asb_chains
        /\ spot.matched
                <=> (/\ spot.cli_chains.bitcoin = spot.asb_chains.bitcoin
                     /\ spot.cli_chains.monero = spot.asb_chains.monero)

C18_Witness ==
    /\ Negotiated
    /\ spot.cli_chains.bitcoin = "Signet" /\ spot.asb_chains.bitcoin = "Testnet"
    /\ spot.cli_chains.monero = spot.asb_chains.monero
    /\ ~spot.matched

----------------------------------------------------------------------------
\* The operations on the substream, in order: the reads and writes the
\* future made, failed ones included.
IsSubstreamOp(e) == e.op \in {"read", "write"}

SubstreamOps(a) == SelectSeq(Hist(a), IsSubstreamOp)

OpsOf(s) == [i \in 1..Len(s) |-> s[i].op]

SuccessfulOps == <<"read", "write", "read", "write", "read">>

IsPrefix(s, t) == Len(s) <= Len(t) /\ s = SubSeq(t, 1, Len(s))

\* C14: a successful attempt reads the peer's Message0, writes its own
\* Message0, reads the peer's Message1, writes its own Message2 and reads the
\* peer's Message2, and nothing else; its own Message0 is written only after
\* the peer's Message0 was folded into State1; a failed attempt's operations
\* are a prefix of that sequence, the failure being the last thing it did.
C14_OperationSequence ==
    \A a \in Peers :
        /\ IsPrefix(OpsOf(SubstreamOps(a)), SuccessfulOps)
        /\ IsPrefix(MsgsOf(Writes(a)), <<"Message0", "Message2">>)
        /\ \A i \in 1..Len(Hist(a)) :
                /\ WroteAt(a, i, "Message0") =>
                        /\ Hist(a)[i].state = "State1"
                        /\ \E j \in 1..(i - 1) :
                                FoldedAt(a, j, "Message0") /\ Hist(a)[j].state = "State0"
                /\ IsFailure(Hist(a)[i]) => i = Len(Hist(a))
        /\ Failures(a) # << >> => Finished(a) /\ ~attempt[a].result.ok
        /\ Finished(a) /\ attempt[a].result.ok =>
                /\ OpsOf(SubstreamOps(a)) = SuccessfulOps
                /\ Failures(a) = << >>
                /\ MsgsOf(Reads(a)) = <<"Message0", "Message1", "Message2">>
                /\ MsgsOf(Writes(a)) = <<"Message0", "Message2">>

C14_Witness ==
    \E a \in Peers : \E b \in Peers :
        /\ attempt[a].pc = "done" /\ attempt[a].result.ok
        /\ OpsOf(SubstreamOps(a)) = SuccessfulOps
        /\ attempt[b].pc = "done" /\ ~attempt[b].result.ok
        /\ OpsOf(SubstreamOps(b)) = <<"read", "write", "read">>

----------------------------------------------------------------------------
\* the attempt has failed while it owned State1
FailedInState1(a) == Failures(a) # << >> /\ Failures(a)[1].state = "State1"

\* the fold of Message1: it follows the deserialization, succeeds, and
\* leaves the attempt owning State2
Message1AlwaysFolded(a) ==
    \A i \in 1..Len(Hist(a)) :
        /\ Hist(a)[i].op = "deserialize" /\ Hist(a)[i].msg = "Message1"
                /\ Hist(a)[i].ok /\ i < Len(Hist(a))
            => Hist(a)[i + 1] = H("fold", "Message1", "State1", TRUE)
        /\ Hist(a)[i].op = "fold" /\ Hist(a)[i].msg = "Message1"
            => /\ Hist(a)[i].ok
               /\ i = Len(Hist(a)) => attempt[a].state = "State2"

\* C15 as stated: folding Message1 cannot fail, and an attempt that ends in
\* State1 has failed in the write of Message0, in a read, or in the
\* deserialization of Message1.
C15_AsStated ==
    \A a \in Peers :
        /\ Message1AlwaysFolded(a)
        /\ FailedInState1(a) =>
                \/ Failures(a)[1].op = "write" /\ Failures(a)[1].msg = "Message0"
                \/ Failures(a)[1].op = "read"
                \/ Failures(a)[1].op = "deserialize" /\ Failures(a)[1].msg = "Message1"

\* C15, amended: folding Message1 cannot fail, and an attempt that ends in
\* State1 has failed in the serialization or the write of its own Message0,
\* in the read of the peer's Message1, or in the deserialization of Message1.
C15_State1Exits ==
    \A a \in Peers :
        /\ Message1AlwaysFolded(a)
        /\ FailedInState1(a) =>
                \/ Failures(a)[1].op = "serialize" /\ Failures(a)[1].msg = "Message0"
                \/ Failures(a)[1].op = "write" /\ Failures(a)[1].msg = "Message0"
                \/ Failures(a)[1].op = "read"
                \/ Failures(a)[1].op = "deserialize" /\ Failures(a)[1].msg = "Message1"

C15_Witness ==
    \E a \in Peers : \E b \in Peers :
        /\ Hist(a) # << >>
        /\ Hist(a)[Len(Hist(a))] = H("fold", "Message1", "State1", TRUE)
        /\ attempt[a].state = "State2"
        /\ Failures(b) # << >>
        /\ Failures(b)[1] = H("serialize", "Message0", "State1", FALSE)

----------------------------------------------------------------------------
\* C17: an attempt started by run yields at most one OutEvent, a Done that
\* carries the attempt's result; every attempt runs as a listener, so no
\* Outbound event is converted and the unreachable branch is never taken.
C17_OneInboundEvent ==
    \A a \in Peers :
        /\ Len(attempt[a].events) <= 1
        /\ attempt[a].pc # "done" => attempt[a].events = << >>
        /\ attempt[a].pc = "done" =>
                /\ Len(attempt[a].events) = 1
                /\ attempt[a].events[1].tag = "Done"
                /\ attempt[a].events[1].res = attempt[a].result
        /\ attempt[a].pc # "idle" => attempt[a].role = "listener"
        /\ \A e \in Emitted(a) : e.tag # "unreachable"

C17_Witness ==
    \E a \in Peers : \E b \in Peers :
        /\ attempt[a].events = <<DoneOk>>
        /\ Len(attempt[b].events) = 1
        /\ attempt[b].events[1].tag = "Done"
        /\ ~attempt[b].events[1].res.ok

----------------------------------------------------------------------------
\* C19: the time Bob is given to act per step is 10 minutes in
\* Config::mainnet() and 5 seconds in Config::regtest(), as the comments on
\* the two BOB_TIME_TO_ACT constants say.
C19_BobTimeToAct ==
    /\ xmr_btc.fn = "mainnet" => xmr_btc.config.bob_time_to_act = minutes(10)
    /\ xmr_btc.fn = "regtest" => xmr_btc.config.bob_time_to_act = seconds(5)

----------------------------------------------------------------------------
AliceWaitsToRead(a) ==
    attempt[a].pc \in {"read0", "read1", "read2"} /\ peer[a].to_alice = << >>

DialerWaitsToRead(a) ==
    peer[a].pc \in {"read0", "read2"} /\ peer[a].to_bob = << >>

\* C16: against a dialer that writes its Message0 first, its Message1 after
\* reading Alice's Message0 and its Message2 after reading Alice's Message2,
\* with every message well-formed and valid and every written message
\* delivered, Alice and the dialer are never both waiting to read, and under
\* fair scheduling every started attempt ends with Done(Ok(State3)).
C16_NoDeadlock ==
    /\ [](\A a \in Peers : ~(AliceWaitsToRead(a) /\ DialerWaitsToRead(a)))
    /\ <>[](\A a \in Peers :
                attempt[a].pc = "idle" \/ attempt[a].events = <<DoneOk>>)

C16_Witness ==
    \E a \in Peers :
        /\ attempt[a].events = <<DoneOk>>
        /\ peer[a].pc = "done"
        /\ peer[a].to_alice = << >> /\ peer[a].to_bob = << >>

----------------------------------------------------------------------------
SwapStarted == swap # NoSwap

====
